---- MODULE Spec2Model ----
(***************************************************************************)
(* A model of tools/extract_key.py: the process lookup (get_wechat_pid),   *)
(* the debugger-driven memory scan (extract_key_via_lldb: the generated    *)
(* lldb script and the parent's parsing of its output), the key validator  *)
(* (try_decrypt_with_key) and the orchestrator (main).                     *)
(*                                                                         *)
(* Text is a sequence of one-character strings.  The content of a memory   *)
(* region is run-length encoded: a sequence of pieces [s, n], each the     *)
(* literal characters s followed by n filler bytes (the byte 0, which is   *)
(* no character of any pattern the scan searches for).  Every operation on *)
(* a region's text (length, slice, search) is computed on that encoding    *)
(* and gives what the same operation gives on the expanded text.           *)
(***************************************************************************)
EXTENDS Integers, Sequences, FiniteSets, TLC

VARIABLES
    pc,           \* where the run is: main(), the lldb script, or exited
    run,          \* which run of main() this is (1, 2, ...)
    memory,       \* the target's memory regions, in enumeration order
    target,       \* the target process: "running", "attached" or "killed"
    lookup,       \* what pgrep did: [returncode, out], or None once it is dropped
    pid,          \* get_wechat_pid()'s result: a text, or None
    script,       \* the run that last wrote /tmp/wechat_key_extract.py, 0 if none
    found_keys,   \* the script's found_keys set
    stdout,       \* what the script has printed so far
    stderr,       \* what the script's interpreter wrote to standard error
    keys,         \* the list extract_key_via_lldb returns
    key_file,     \* data/db_key.txt: [exists, data]
    exit_code,    \* main()'s exit status, or None while it runs
    advice,       \* whether main() printed its troubleshooting message
    passes,       \* the passes the script has entered, in order
    history,      \* per finished run: what it returned and left in the file
    tool,         \* the validator's subprocess outcome
    result        \* the validator's result

vars == <<pc, run, memory, target, lookup, pid, script, found_keys, stdout, stderr,
          keys, key_file, exit_code, advice, passes, history, tool, result>>

None == <<"None">>

-----------------------------------------------------------------------------
(* Characters and literals *)

HexChars == {"0","1","2","3","4","5","6","7","8","9",
             "a","b","c","d","e","f","A","B","C","D","E","F"}

Whitespace == {" ", "\n", "\t", "\r"}

KeyLen == 64

NL == <<"\n">>

KEY_FOUND == <<"K","E","Y","_","F","O","U","N","D",":">>

KEY_CANDIDATE == <<"K","E","Y","_","C","A","N","D","I","D","A","T","E",":">>

ColonSpace == <<":"," ">>

ATTACH_ERROR == <<"A","T","T","A","C","H","_","E","R","R","O","R",":"," ">>

ATTACHED == <<"A","T","T","A","C","H","E","D">>

KEY_NOT_FOUND_PATTERN1 == <<"K","E","Y","_","N","O","T","_","F","O","U","N","D",
                            "_","P","A","T","T","E","R","N","1">>

TRYING == <<"T","r","y","i","n","g"," ","a","l","t","e","r","n","a","t","i","v","e",
            " ","s","e","a","r","c","h",".",".",".">>

NO_KEYS_FOUND == <<"N","O","_","K","E","Y","S","_","F","O","U","N","D">>

DETACHED == <<"D","E","T","A","C","H","E","D">>

db_storage == <<"d","b","_","s","t","o","r","a","g","e">>

MiB == 1024 * 1024

-----------------------------------------------------------------------------
(* Python's str operations, on sequences of characters *)

Max(a, b) == IF a >= b THEN a ELSE b

Min(a, b) == IF a <= b THEN a ELSE b

\* s[a:b] with 0-based a, b already clipped to >= 0
Slice(s, a, b) == SubSeq(s, a + 1, Min(b, Len(s)))

\* whether pat occurs in s at 1-based index i
OccursAt(s, pat, i) ==
    /\ i >= 1
    /\ i + Len(pat) - 1 <= Len(s)
    /\ \A j \in 1..Len(pat) : s[i + j - 1] = pat[j]

\* pat in s
Contains(s, pat) == \E i \in 1..(Len(s) - Len(pat) + 1) : OccursAt(s, pat, i)

\* s.find(pat) as a 1-based index, 0 when absent
Find(s, pat) ==
    IF Contains(s, pat)
    THEN CHOOSE i \in 1..Len(s) :
            /\ OccursAt(s, pat, i)
            /\ \A j \in 1..(i - 1) : ~OccursAt(s, pat, j)
    ELSE 0

\* s.strip()
Strip(s) ==
    LET keep == {i \in 1..Len(s) : s[i] \notin Whitespace}
    IN  IF keep = {} THEN <<>>
        ELSE LET lo == CHOOSE i \in keep : \A j \in keep : i <= j
                 hi == CHOOSE i \in keep : \A j \in keep : i >= j
             IN  SubSeq(s, lo, hi)

\* s.split('\n'): the lines of s, the last one possibly empty
RECURSIVE SplitLines(_)
SplitLines(s) ==
    LET i == Find(s, NL)
    IN  IF i = 0 THEN <<s>>
        ELSE <<SubSeq(s, 1, i - 1)>> \o SplitLines(SubSeq(s, i + 1, Len(s)))

\* line.split(': ', 1)[-1]
AfterFirstColonSpace(line) ==
    LET i == Find(line, ColonSpace)
    IN  IF i = 0 THEN line ELSE SubSeq(line, i + 2, Len(line))

\* the lines, each followed by a newline, joined
RECURSIVE JoinLines(_)
JoinLines(ls) ==
    IF ls = <<>> THEN <<>> ELSE Head(ls) \o NL \o JoinLines(Tail(ls))

SeqToSet(s) == {s[i] : i \in 1..Len(s)}

NoDuplicates(s) == \A i, j \in 1..Len(s) : s[i] = s[j] => i = j

-----------------------------------------------------------------------------
(* Run-length encoded text: the bytes of a memory region *)

Lit(s) == [s |-> s, n |-> 0]

Fill(n) == [s |-> <<>>, n |-> n]

RECURSIVE TextLen(_)
TextLen(t) == IF t = <<>> THEN 0 ELSE Len(Head(t).s) + Head(t).n + TextLen(Tail(t))

\* t[a:b] for 0 <= a: the pieces of t cut to the byte range [a, b)
RECURSIVE SliceFrom(_, _, _, _)
SliceFrom(t, off, a, b) ==
    IF t = <<>> \/ off >= b THEN <<>>
    ELSE LET p    == Head(t)
             mid  == off + Len(p.s)
             stop == mid + p.n
             lit  == IF a < mid /\ off < b
                     THEN Slice(p.s, Max(a - off, 0), Min(b, mid) - off)
                     ELSE <<>>
             gap  == Max(0, Min(b, stop) - Max(a, mid))
             rest == SliceFrom(Tail(t), stop, a, b)
         IN  IF lit = <<>> /\ gap = 0 THEN rest
             ELSE <<[s |-> lit, n |-> gap]>> \o rest

TextSlice(t, a, b) == SliceFrom(t, 0, a, b)

\* The maximal runs of literal characters of t, each with its 0-based offset.
\* A match of any pattern below lies inside one run: no pattern holds the
\* filler byte.
RECURSIVE StretchesFrom(_, _, _, _)
StretchesFrom(t, off, curOff, cur) ==
    IF t = <<>>
    THEN IF cur = <<>> THEN <<>> ELSE <<[off |-> curOff, s |-> cur]>>
    ELSE LET p      == Head(t)
             start  == IF cur = <<>> THEN off ELSE curOff
             joined == cur \o p.s
         IN  IF p.n > 0
             THEN (IF joined = <<>> THEN <<>> ELSE <<[off |-> start, s |-> joined]>>)
                  \o StretchesFrom(Tail(t), off + Len(p.s) + p.n, 0, <<>>)
             ELSE StretchesFrom(Tail(t), off + Len(p.s), start, joined)

Stretches(t) == StretchesFrom(t, 0, 0, <<>>)

-----------------------------------------------------------------------------
(* The regular expressions of the lldb script *)

\* [0-9a-fA-F]{64} matches at s[i]
HexRunAt(s, i) ==
    /\ i + KeyLen - 1 <= Len(s)
    /\ \A j \in 0..(KeyLen - 1) : s[i + j] \in HexChars

\* the same pattern without its closing quote: x'([0-9a-fA-F]{64})
QuotedKeyAtUnclosed(s, i) ==
    /\ i + KeyLen + 1 <= Len(s)
    /\ s[i] = "x"
    /\ s[i + 1] = "'"
    /\ HexRunAt(s, i + 2)

\* x'([0-9a-fA-F]{64})' matches at s[i]
QuotedKeyAt(s, i) ==
    /\ i + KeyLen + 2 <= Len(s)
    /\ s[i] = "x"
    /\ s[i + 1] = "'"
    /\ HexRunAt(s, i + 2)
    /\ s[i + KeyLen + 2] = "'"

\* re.finditer: of the positions at which the pattern matches, the leftmost,
\* then the leftmost at or after the end of that match, and so on
RECURSIVE LeftmostFrom(_, _, _)
LeftmostFrom(at, i, width) ==
    LET later == {j \in at : j >= i}
    IN  IF later = {} THEN <<>>
        ELSE LET j == CHOOSE k \in later : \A l \in later : k <= l
             IN  <<j>> \o LeftmostFrom(at, j + width, width)

\* re.finditer(r"x'([0-9a-fA-F]{64})'", s): group(1) of each match
ScanQuoted(s) ==
    LET ms == LeftmostFrom({j \in 1..Len(s) : QuotedKeyAt(s, j)}, 1, KeyLen + 3)
    IN  [k \in 1..Len(ms) |-> SubSeq(s, ms[k] + 2, ms[k] + KeyLen + 1)]

\* re.finditer(r'([0-9a-fA-F]{64})', s): group(1) of each match
ScanHexRuns(s) ==
    LET ms == LeftmostFrom({j \in 1..Len(s) : HexRunAt(s, j)}, 1, KeyLen)
    IN  [k \in 1..Len(ms) |-> SubSeq(s, ms[k], ms[k] + KeyLen - 1)]

\* re.finditer(r'db_storage', s): m.start() of each match, 0-based
ScanMarker(s) ==
    LET ms == LeftmostFrom({j \in 1..Len(s) : OccursAt(s, db_storage, j)}, 1, Len(db_storage))
    IN  [k \in 1..Len(ms) |-> ms[k] - 1]

\* a finditer over a region's text: run by run, in order
RECURSIVE FindQuotedKeys(_)
FindQuotedKeys(st) ==
    IF st = <<>> THEN <<>>
    ELSE ScanQuoted(Head(st).s) \o FindQuotedKeys(Tail(st))

RECURSIVE FindHexRuns(_)
FindHexRuns(st) ==
    IF st = <<>> THEN <<>>
    ELSE ScanHexRuns(Head(st).s) \o FindHexRuns(Tail(st))

RECURSIVE FindMarkers(_)
FindMarkers(st) ==
    IF st = <<>> THEN <<>>
    ELSE LET here == ScanMarker(Head(st).s)
         IN  [k \in 1..Len(here) |-> Head(st).off + here[k]] \o FindMarkers(Tail(st))

-----------------------------------------------------------------------------
(* The scan of the lldb script: a memory region is
   [readable, writable, read, content], read being what ReadMemory does on
   it: "ok", "fail" (err.Fail()) or "raise" (an exception) *)

RegionSize(region) == TextLen(region.content)

\* process.ReadMemory(begin, n, err) followed by "if err.Fail() or not data"
ReadMemory(region, n) ==
    IF region.read = "ok" THEN TextSlice(region.content, 0, n) ELSE <<>>

PrimaryReadCap == 10 * MiB

\* one iteration of the first loop: the keys it adds to found_keys
PrimaryRegion(region) ==
    IF ~region.readable THEN <<>>
    ELSE LET size == RegionSize(region)
         IN  IF size > 100 * MiB \/ size < 64 THEN <<>>
             ELSE LET data == ReadMemory(region, Min(size, PrimaryReadCap))
                  IN  IF data = <<>> THEN <<>>
                      ELSE FindQuotedKeys(Stretches(data))

\* the first loop with "break" for "continue" on a region that cannot be read
RECURSIVE PrimaryLoopAborts(_, _, _)
PrimaryLoopAborts(mem, i, found) ==
    IF i > Len(mem) \/ (mem[i].readable /\ mem[i].read # "ok") THEN found
    ELSE PrimaryLoopAborts(mem, i + 1, found \cup SeqToSet(PrimaryRegion(mem[i])))

\* the first loop, over all regions
RECURSIVE PrimaryLoop(_, _, _)
PrimaryLoop(mem, i, found) ==
    IF i > Len(mem) THEN found
    ELSE PrimaryLoop(mem, i + 1, found \cup SeqToSet(PrimaryRegion(mem[i])))

WindowRadius == 1024

MinDistinct == 4

\* candidate != '0' * 64 and len(set(candidate)) > 4
KeepsCandidate(candidate) ==
    /\ candidate # [i \in 1..KeyLen |-> "0"]
    /\ Cardinality(SeqToSet(candidate)) > MinDistinct

\* the candidates one marker occurrence yields, in order
NearMarker(text, pos) ==
    LET nearby == TextSlice(text, Max(0, pos - WindowRadius), pos + WindowRadius)
    IN  SelectSeq(FindHexRuns(Stretches(nearby)), KeepsCandidate)

RECURSIVE NearMarkers(_, _)
NearMarkers(text, ms) ==
    IF ms = <<>> THEN <<>>
    ELSE NearMarker(text, Head(ms)) \o NearMarkers(text, Tail(ms))

\* one iteration of the second loop: the candidates it adds and prints
FallbackRegion(region) ==
    IF ~region.readable \/ ~region.writable THEN <<>>
    ELSE LET size == RegionSize(region)
         IN  IF size > 50 * MiB \/ size < 100 THEN <<>>
             ELSE LET text == ReadMemory(region, Min(size, 5 * MiB))
                  IN  IF text = <<>> THEN <<>>
                      ELSE NearMarkers(text, FindMarkers(Stretches(text)))

\* the second loop, over all regions
RECURSIVE FallbackLoop(_, _)
FallbackLoop(mem, i) ==
    IF i > Len(mem) THEN <<>>
    ELSE FallbackRegion(mem[i]) \o FallbackLoop(mem, i + 1)

\* print(f"<tag> <key>") for each key of ks
RECURSIVE PrintKeys(_, _)
PrintKeys(tag, ks) ==
    IF ks = <<>> THEN <<>>
    ELSE tag \o <<" ">> \o Head(ks) \o NL \o PrintKeys(tag, Tail(ks))

\* the orders in which "for key in found_keys" can visit a set of strings
Orders(S) ==
    {o \in [1..Cardinality(S) -> S] : \A i, j \in 1..Cardinality(S) : o[i] = o[j] => i = j}

-----------------------------------------------------------------------------
(* The parent: get_wechat_pid, the parsing of the script's output, and
   try_decrypt_with_key *)

\* get_wechat_pid without its test of the return code
get_wechat_pid_unchecked(returncode, out) ==
    LET pids == SplitLines(Strip(out))
    IN  IF pids # <<>> THEN pids[1] ELSE None

\* get_wechat_pid, of pgrep's return code and standard output
get_wechat_pid(returncode, out) ==
    IF returncode # 0 THEN None
    ELSE LET pids == SplitLines(Strip(out))
         IN  IF pids # <<>> THEN pids[1] ELSE None

\* "not pid"
NotPid(p) == p = None \/ p = <<>>

\* the key a line of the output yields, if it yields one
LineHasKey(line) == Contains(line, KEY_FOUND) \/ Contains(line, KEY_CANDIDATE)

LineKey(line) == Strip(AfterFirstColonSpace(line))

\* the loop over output.split('\n') that builds keys
RECURSIVE KeysOfLines(_)
KeysOfLines(ls) ==
    IF ls = <<>> THEN <<>>
    ELSE (IF LineHasKey(Head(ls)) THEN <<LineKey(Head(ls))>> ELSE <<>>)
         \o KeysOfLines(Tail(ls))

ParseKeys(output) == KeysOfLines(SplitLines(output))

\* try_decrypt_with_key, of what subprocess.run did:
\* [kind |-> "exit", returncode, out] or [kind |-> the exception raised]
try_decrypt_with_key(outcome) ==
    CASE outcome.kind = "exit" ->
            IF outcome.returncode = 0 /\ Strip(outcome.out) # <<>>
            THEN "True" ELSE "False"
      [] outcome.kind \in {"TimeoutExpired", "FileNotFoundError"} -> "False"
      [] OTHER -> "raises"

-----------------------------------------------------------------------------
(* The inputs the model draws from *)

MaxRegions == 2

MaxRuns == 2

HEX16 == <<"0","1","2","3","4","5","6","7","8","9","a","b","c","d","e","f">>

HEX16B == <<"A","1","b","2","C","3","d","4","E","5","f","6","0","7","8","9">>

K1 == [i \in 1..KeyLen |-> HEX16[((i - 1) % 16) + 1]]

K2 == [i \in 1..KeyLen |-> HEX16B[((i - 1) % 16) + 1]]

Zeros == [i \in 1..KeyLen |-> "0"]

Quoted(k) == <<"x", "'">> \o k \o <<"'">>

Region(r, w, rd, c) == [readable |-> r, writable |-> w, read |-> rd, content |-> c]

\* regions of a target process: keys in the quoted form, keys near the
\* storage-path marker, regions that cannot be read, and regions past the
\* size limits and read caps of the scan
Regions ==
    { Region(TRUE,  TRUE,  "ok",    <<Lit(Quoted(K1)), Fill(100)>>),
      Region(TRUE,  FALSE, "ok",    <<Fill(40), Lit(Quoted(K2))>>),
      Region(TRUE,  TRUE,  "ok",    <<Lit(db_storage \o <<"/">> \o K1 \o <<"/">> \o db_storage),
                                      Fill(50)>>),
      Region(TRUE,  TRUE,  "fail",  <<Lit(Quoted(K1) \o db_storage \o <<"/">> \o K2), Fill(100)>>),
      Region(TRUE,  TRUE,  "raise", <<Lit(Quoted(K2)), Fill(100)>>),
      Region(FALSE, FALSE, "ok",    <<Lit(Quoted(K2)), Fill(100)>>),
      Region(TRUE,  TRUE,  "ok",    <<Fill(PrimaryReadCap), Lit(Quoted(K1))>>),
      Region(TRUE,  TRUE,  "ok",    <<Lit(db_storage \o <<"/">> \o Zeros), Fill(2 * WindowRadius),
                                      Lit(K2)>>) }

Memories == UNION {[1..n -> Regions] : n \in 0..MaxRegions}

PgrepCodes == {0, 1, 2}

PID_ONE == <<"4","2","4","2","\n">>

PID_TWO == <<"4","2","4","2","\n","9","7","7","\n">>

PgrepOutputs == {<<>>, NL, PID_ONE, PID_TWO}

NO_LLDB == <<"M","o","d","u","l","e","N","o","t","F","o","u","n","d","E","r","r","o","r",
             ":"," ","N","o"," ","m","o","d","u","l","e"," ","n","a","m","e","d"," ",
             "'","l","l","d","b","'","\n">>

ATTACH_FAILED == <<"a","t","t","a","c","h"," ","f","a","i","l","e","d">>

NoFile == [exists |-> FALSE, data |-> <<>>]

-----------------------------------------------------------------------------
(* main() and the subprocess it waits for *)

Init ==
    /\ pc = "main"
    /\ run = 1
    /\ memory \in Memories
    /\ target = "running"
    /\ lookup = None
    /\ pid = None
    /\ script = 0
    /\ found_keys = {}
    /\ stdout = <<>>
    /\ stderr = <<>>
    /\ keys = <<>>
    /\ key_file = NoFile
    /\ exit_code = <<>>
    /\ advice = FALSE
    /\ passes = <<>>
    /\ history = <<>>
    /\ tool = None
    /\ result = None

\* what a finished run leaves behind
Finished(code, ks, file) ==
    [exit     |-> code,
     keys     |-> ks,
     file     |-> file,
     returned |-> pc = "main_keys",
     scanned  |-> pc = "main_keys" /\ "detach" \in SeqToSet(passes),
     fallback |-> pc = "main_keys" /\ "fallback" \in SeqToSet(passes)]

\* pid = get_wechat_pid()
GetWechatPid ==
    /\ pc = "main"
    /\ \E returncode \in PgrepCodes, out \in PgrepOutputs :
          /\ lookup' = [returncode |-> returncode, out |-> out]
          /\ pid' = get_wechat_pid(returncode, out)
    /\ pc' = "main_pid"
    /\ UNCHANGED <<run, memory, target, script, found_keys, stdout, stderr, keys,
                   key_file, exit_code, advice, passes, history, tool, result>>

\* if not pid: sys.exit(1)
ExitNotFound ==
    /\ pc = "main_pid"
    /\ NotPid(pid)
    /\ exit_code' = <<1>>
    /\ history' = Append(history, Finished(<<1>>, keys, key_file))
    /\ pc' = "exited"
    /\ UNCHANGED <<lookup, run, memory, target, pid, script, found_keys, stdout, stderr, keys,
                   key_file, advice, passes, tool, result>>

\* extract_key_via_lldb(pid) up to subprocess.run: the script is written
WriteScript ==
    /\ pc = "main_pid"
    /\ ~NotPid(pid)
    /\ script' = run
    /\ lookup' = None
    /\ pc' = "child"
    /\ UNCHANGED <<run, memory, target, pid, found_keys, stdout, stderr, keys,
                   key_file, exit_code, advice, passes, history, tool, result>>

\* the child: "import lldb" fails
ImportFails ==
    /\ pc = "child"
    /\ stderr' = NO_LLDB
    /\ pc' = "child_done"
    /\ UNCHANGED <<lookup, run, memory, target, pid, script, found_keys, stdout, keys,
                   key_file, exit_code, advice, passes, history, tool, result>>

\* the child: AttachToProcessWithID fails
AttachFails ==
    /\ pc = "child"
    /\ stdout' = stdout \o ATTACH_ERROR \o ATTACH_FAILED \o NL
    /\ pc' = "child_done"
    /\ UNCHANGED <<lookup, run, memory, target, pid, script, found_keys, stderr, keys,
                   key_file, exit_code, advice, passes, history, tool, result>>

\* the child: AttachToProcessWithID succeeds
AttachSucceeds ==
    /\ pc = "child"
    /\ target' = "attached"
    /\ stdout' = stdout \o ATTACHED \o NL
    /\ passes' = Append(passes, "attach")
    /\ pc' = "primary"
    /\ UNCHANGED <<lookup, run, memory, pid, script, found_keys, stderr, keys,
                   key_file, exit_code, advice, history, tool, result>>

\* the child: the first loop over the regions
PrimaryPass ==
    /\ pc = "primary"
    /\ found_keys' = PrimaryLoop(memory, 1, {})
    /\ passes' = Append(passes, "primary")
    /\ pc' = "report"
    /\ UNCHANGED <<lookup, run, memory, target, pid, script, stdout, stderr, keys,
                   key_file, exit_code, advice, history, tool, result>>

\* the child: "if found_keys": the keys are printed in the set's order
ReportKeys ==
    /\ pc = "report"
    /\ found_keys # {}
    /\ \E order \in Orders(found_keys) :
          stdout' = stdout \o PrintKeys(KEY_FOUND, order)
    /\ pc' = "detach"
    /\ UNCHANGED <<lookup, run, memory, target, pid, script, found_keys, stderr, keys,
                   key_file, exit_code, advice, passes, history, tool, result>>

\* the "else" branch giving up without its second loop
FallbackPassSkipped ==
    /\ pc = "report"
    /\ found_keys = {}
    /\ stdout' = stdout \o KEY_NOT_FOUND_PATTERN1 \o NL \o NO_KEYS_FOUND \o NL
    /\ pc' = "detach"
    /\ UNCHANGED <<lookup, run, memory, target, pid, script, found_keys, stderr, keys,
                   key_file, exit_code, advice, passes, history, tool, result>>

\* the child: "else": the second loop over the regions
FallbackPass ==
    /\ pc = "report"
    /\ found_keys = {}
    /\ LET candidates == FallbackLoop(memory, 1)
       IN  /\ found_keys' = SeqToSet(candidates)
           /\ stdout' = stdout \o KEY_NOT_FOUND_PATTERN1 \o NL \o TRYING \o NL
                          \o PrintKeys(KEY_CANDIDATE, candidates)
                          \o (IF candidates = <<>> THEN NO_KEYS_FOUND \o NL ELSE <<>>)
    /\ passes' = Append(passes, "fallback")
    /\ pc' = "detach"
    /\ UNCHANGED <<lookup, run, memory, target, pid, script, stderr, keys,
                   key_file, exit_code, advice, history, tool, result>>

\* what process.Kill() would leave the target as
Killed == "killed"

\* what process.Detach() leaves the target as
Detached == "running"

\* the child: process.Detach()
Detach ==
    /\ pc = "detach"
    /\ target' = Detached
    /\ stdout' = stdout \o DETACHED \o NL
    /\ passes' = Append(passes, "detach")
    /\ pc' = "child_done"
    /\ UNCHANGED <<lookup, run, memory, pid, script, found_keys, stderr, keys,
                   key_file, exit_code, advice, history, tool, result>>

ChildSteps == {"child", "primary", "report", "detach"}

\* the status main() ends with when subprocess.run raises TimeoutExpired
TimeoutExit == <<1>>

\* subprocess.run(..., timeout=120) expires: the child is killed and
\* TimeoutExpired propagates out of extract_key_via_lldb and main()
Timeout ==
    /\ pc \in ChildSteps
    /\ exit_code' = TimeoutExit
    /\ history' = Append(history, Finished(TimeoutExit, keys, key_file))
    /\ pc' = "exited"
    /\ UNCHANGED <<lookup, run, memory, target, pid, script, found_keys, stdout, stderr, keys,
                   key_file, advice, passes, tool, result>>

\* output = result.stdout + result.stderr, and the loop that builds keys
ParseOutput ==
    /\ pc = "child_done"
    /\ keys' = ParseKeys(stdout \o stderr)
    /\ pc' = "main_keys"
    /\ UNCHANGED <<lookup, run, memory, target, pid, script, found_keys, stdout, stderr,
                   key_file, exit_code, advice, passes, history, tool, result>>

\* the same with the key file opened in mode 'a'
SaveKeysAppend ==
    /\ pc = "main_keys"
    /\ keys # <<>>
    /\ key_file' = [exists |-> TRUE, data |-> key_file.data \o JoinLines(keys)]
    /\ exit_code' = <<0>>
    /\ history' = Append(history, Finished(<<0>>, keys, key_file'))
    /\ pc' = "exited"
    /\ UNCHANGED <<lookup, run, memory, target, pid, script, found_keys, stdout, stderr, keys,
                   advice, passes, tool, result>>

\* main(): "if keys": the keys are written to the key file
SaveKeys ==
    /\ pc = "main_keys"
    /\ keys # <<>>
    /\ key_file' = [exists |-> TRUE, data |-> JoinLines(keys)]
    /\ exit_code' = <<0>>
    /\ history' = Append(history, Finished(<<0>>, keys, key_file'))
    /\ pc' = "exited"
    /\ UNCHANGED <<lookup, run, memory, target, pid, script, found_keys, stdout, stderr, keys,
                   advice, passes, tool, result>>

\* main(): "else": the troubleshooting message
NoKeys ==
    /\ pc = "main_keys"
    /\ keys = <<>>
    /\ advice' = TRUE
    /\ exit_code' = <<0>>
    /\ history' = Append(history, Finished(<<0>>, keys, key_file))
    /\ pc' = "exited"
    /\ UNCHANGED <<lookup, run, memory, target, pid, script, found_keys, stdout, stderr, keys,
                   key_file, passes, tool, result>>

\* the tool is run again, on the same target and the same memory
Rerun ==
    /\ pc = "exited"
    /\ run < MaxRuns
    /\ run' = run + 1
    /\ pc' = "main"
    /\ lookup' = None
    /\ pid' = None
    /\ found_keys' = {}
    /\ stdout' = <<>>
    /\ stderr' = <<>>
    /\ keys' = <<>>
    /\ exit_code' = <<>>
    /\ advice' = FALSE
    /\ passes' = <<>>
    /\ UNCHANGED <<memory, target, script, key_file, history, tool, result>>

Next ==
    \/ GetWechatPid
    \/ ExitNotFound
    \/ WriteScript
    \/ ImportFails
    \/ AttachFails
    \/ AttachSucceeds
    \/ PrimaryPass
    \/ ReportKeys
    \/ FallbackPass
    \/ Detach
    \/ Timeout
    \/ ParseOutput
    \/ SaveKeys
    \/ NoKeys
    \/ Rerun

Spec == Init /\ [][Next]_vars

-----------------------------------------------------------------------------
(* The primary pass on one region of any content: the state right after a
   successful attach, the region built from the pieces of the quoted-key
   pattern and from filler *)

MaxPieces == 4

Pieces ==
    { Lit(<<"x", "'">>), Lit(K1), Lit(K2), Lit(<<"'">>), Lit(<<"a">>),
      Fill(PrimaryReadCap - 40), Fill(100 * MiB) }

Contents == UNION {[1..n -> Pieces] : n \in 0..MaxPieces}

InitPrimary ==
    /\ pc = "primary"
    /\ run = 1
    /\ \E c \in Contents : memory = <<Region(TRUE, TRUE, "ok", c)>>
    /\ target = "attached"
    /\ lookup = None
    /\ pid = <<"4", "2", "4", "2">>
    /\ script = 1
    /\ found_keys = {}
    /\ stdout = ATTACHED \o NL
    /\ stderr = <<>>
    /\ keys = <<>>
    /\ key_file = NoFile
    /\ exit_code = <<>>
    /\ advice = FALSE
    /\ passes = <<"attach">>
    /\ history = <<>>
    /\ tool = None
    /\ result = None

NextPrimary == PrimaryPass

SpecPrimary == InitPrimary /\ [][NextPrimary]_vars

-----------------------------------------------------------------------------
(* The parent's parsing on any output of the child: the state in which
   subprocess.run has returned *)

MaxTokens == 3

Tokens == {KEY_FOUND, KEY_CANDIDATE, <<" ">>, <<":">>, K1, NL, <<"z">>}

RECURSIVE Flatten(_)
Flatten(ts) == IF ts = <<>> THEN <<>> ELSE Head(ts) \o Flatten(Tail(ts))

Texts == {Flatten(ts) : ts \in UNION {[1..n -> Tokens] : n \in 0..MaxTokens}}

InitParse ==
    /\ pc = "child_done"
    /\ run = 1
    /\ memory = <<>>
    /\ target = "running"
    /\ lookup = None
    /\ pid = <<"4", "2", "4", "2">>
    /\ script = 1
    /\ found_keys = {}
    /\ stdout \in {<<>>, ATTACH_ERROR \o ATTACH_FAILED \o NL}
    /\ stderr \in Texts
    /\ keys = <<>>
    /\ key_file = NoFile
    /\ exit_code = <<>>
    /\ advice = FALSE
    /\ passes = <<>>
    /\ history = <<>>
    /\ tool = None
    /\ result = None

NextParse == ParseOutput \/ SaveKeys \/ NoKeys

SpecParse == InitParse /\ [][NextParse]_vars

-----------------------------------------------------------------------------
(* try_decrypt_with_key on any outcome of the sqlcipher subprocess *)

MaxOut == 3

ToolReturnCodes == {0, 1, 2}

ToolOutputs == UNION {[1..n -> {" ", "\n", "3"}] : n \in 0..MaxOut}

ToolOutcomes ==
    [kind : {"exit"}, returncode : ToolReturnCodes, out : ToolOutputs]
    \cup [kind : {"TimeoutExpired", "FileNotFoundError", "PermissionError"},
          returncode : {0}, out : {<<>>}]

InitValidator ==
    /\ pc = "validate"
    /\ run = 1
    /\ memory = <<>>
    /\ target = "running"
    /\ lookup = None
    /\ pid = None
    /\ script = 0
    /\ found_keys = {}
    /\ stdout = <<>>
    /\ stderr = <<>>
    /\ keys = <<>>
    /\ key_file = NoFile
    /\ exit_code = <<>>
    /\ advice = FALSE
    /\ passes = <<>>
    /\ history = <<>>
    /\ tool \in ToolOutcomes
    /\ result = None

\* try_decrypt_with_key(db_path, key)
TryDecrypt ==
    /\ pc = "validate"
    /\ result' = <<try_decrypt_with_key(tool)>>
    /\ pc' = "validated"
    /\ UNCHANGED <<run, memory, target, lookup, pid, script, found_keys, stdout, stderr,
                   keys, key_file, exit_code, advice, passes, history, tool>>

NextValidator == TryDecrypt

SpecValidator == InitValidator /\ [][NextValidator]_vars

-----------------------------------------------------------------------------
(* Properties *)

\* pgrep found no process: a non-zero exit, or no identifier printed
NoProcess(l) == l.returncode # 0 \/ Strip(l.out) = <<>>

\* the key file as the current run found it
FileBefore == IF run = 1 THEN NoFile ELSE history[run - 1].file

IsHex64(k) == Len(k) = 64 /\ \A i \in 1..Len(k) : k[i] \in HexChars

\* the lines of the key file
FileLines(file) == IF file.data = <<>> THEN <<>>
                   ELSE LET ls == SplitLines(file.data) IN SubSeq(ls, 1, Len(ls) - 1)

Count(s, x) == Cardinality({i \in 1..Len(s) : s[i] = x})

IsPermutation(a, b) ==
    /\ Len(a) = Len(b)
    /\ \A x \in SeqToSet(a) \cup SeqToSet(b) : Count(a, x) = Count(b, x)

\* a run whose scan attached, ran its passes, detached and returned
Scanned(h) == h.returned /\ h.scanned

\* C1: when pgrep reports no process (a non-zero exit, or no identifier),
\* get_wechat_pid gives no pid, and a run without a pid goes nowhere but to
\* exit status 1: it writes no script, attaches to nothing, runs no pass and
\* leaves the key file as it found it.
NotFoundExitsOne ==
    /\ (pc = "main_pid" /\ NoProcess(lookup)) => NotPid(pid)
    /\ (pc \notin {"main", "validate", "validated"} /\ NotPid(pid)) =>
          /\ pc \in {"main_pid", "exited"}
          /\ pc = "exited" => exit_code = <<1>>
          /\ script # run
          /\ passes = <<>>
          /\ stdout = <<>>
          /\ target # "attached" \/ run > 1
          /\ key_file = FileBefore

\* a second run that finds no process exits with the key file of the first
\* run still in place
NotFoundWitness ==
    /\ pc = "exited"
    /\ NotPid(pid)
    /\ lookup.returncode # 0
    /\ exit_code = <<1>>
    /\ key_file.exists

\* C2 (as claimed): a run that found the process exits with status 0, and
\* status 1 is the exit of a run that found no process.
FoundExitsZero ==
    pc = "exited" =>
        /\ ~NotPid(pid) => exit_code = <<0>>
        /\ exit_code = <<1>> => NotPid(pid)

\* C3 (as claimed): every key returned, and every line of the key file, is
\* 64 hexadecimal digits, whatever the child wrote to its output.
KeysAreHex64 ==
    pc \in {"main_keys", "exited"} =>
        /\ \A i \in 1..Len(keys) : IsHex64(keys[i])
        /\ \A i \in 1..Len(FileLines(key_file)) : IsHex64(FileLines(key_file)[i])

\* C4 (as claimed): no key appears twice in the keys returned, nor in the
\* key file.
KeysDeduplicated ==
    pc \in {"main_keys", "exited"} =>
        /\ NoDuplicates(keys)
        /\ NoDuplicates(FileLines(key_file))

\* the captures of the occurrences of x'<64 hex>' that end within the first
\* limit bytes of a region's content
QuotedCaptureAt(s, j) ==
    /\ j + 66 <= Len(s)
    /\ SubSeq(s, j, j + 1) = <<"x", "'">>
    /\ SeqToSet(SubSeq(s, j + 2, j + 65)) \subseteq HexChars
    /\ SubSeq(s, j + 66, j + 66) = <<"'">>

CapturesWithin(content, limit) ==
    LET st == Stretches(content)
    IN  UNION { { SubSeq(st[k].s, j + 2, j + 65) :
                    j \in {i \in 1..Len(st[k].s) :
                             /\ QuotedCaptureAt(st[k].s, i)
                             /\ st[k].off + i + 66 <= limit} } :
                k \in 1..Len(st) }

\* C5 (as claimed): the primary pass yields exactly the captures of the
\* occurrences of x'<64 hex>' in the region's content, whatever its size.
PrimaryYieldsAllCaptures ==
    pc = "report" =>
        found_keys = CapturesWithin(memory[1].content, RegionSize(memory[1]))

\* C5 (amended): on a readable region of 64 bytes to 100 MiB that is read
\* without error, the primary pass yields exactly the captures of the
\* occurrences of x'<64 hex>' that lie within the region's first 10 MiB.
PrimaryYieldsCapturesRead ==
    (/\ pc = "report"
     /\ RegionSize(memory[1]) >= 64
     /\ RegionSize(memory[1]) <= 100 * 1024 * 1024) =>
        found_keys = CapturesWithin(memory[1].content, 10 * 1024 * 1024)

\* a region larger than the read cap, with a key the pass found
PrimaryWitness ==
    /\ pc = "report"
    /\ RegionSize(memory[1]) > 10 * 1024 * 1024
    /\ RegionSize(memory[1]) <= 100 * 1024 * 1024
    /\ found_keys = {K1}
    /\ CapturesWithin(memory[1].content, RegionSize(memory[1])) = {K1}

\* C6 (as claimed): two runs that both scanned the same memory return the
\* same keys, and leave byte-identical key files.
RunsByteIdentical ==
    \A i, j \in 1..Len(history) :
        (i < j /\ Scanned(history[i]) /\ Scanned(history[j])) =>
            /\ history[i].keys = history[j].keys
            /\ history[i].file = history[j].file

\* C6 (amended): two runs that both scanned the same memory return the same
\* set of keys, each key the same number of times, and leave key files with
\* the same lines; the keys and the files are identical, order included,
\* when the keys came from the fallback pass or are fewer than two.
RunsSameKeys ==
    \A i, j \in 1..Len(history) :
        (i < j /\ Scanned(history[i]) /\ Scanned(history[j])) =>
            /\ SeqToSet(history[i].keys) = SeqToSet(history[j].keys)
            /\ IsPermutation(history[i].keys, history[j].keys)
            /\ history[i].file.exists = history[j].file.exists
            /\ IsPermutation(FileLines(history[i].file), FileLines(history[j].file))
            /\ (history[i].fallback \/ Len(history[i].keys) < 2) =>
                  /\ history[i].keys = history[j].keys
                  /\ history[i].file = history[j].file

\* two scanning runs that found two keys and wrote them in different orders
RunsWitness ==
    /\ Len(history) >= 2
    /\ Scanned(history[1])
    /\ Scanned(history[2])
    /\ Len(history[1].keys) = 2
    /\ history[1].keys # history[2].keys
    /\ history[2].file.exists

\* C7 (as claimed): try_decrypt_with_key returns a boolean whatever the
\* subprocess does, true exactly when it exits with code 0 and output that
\* is not blank.
ValidatorReturnsBoolean ==
    pc = "validated" =>
        /\ result \in {<<"True">>, <<"False">>}
        /\ result = <<"True">> <=>
              (tool.kind = "exit" /\ tool.returncode = 0 /\ Strip(tool.out) # <<>>)

\* C8: NO_KEYS_FOUND is printed, and the troubleshooting message is printed
\* for a process the scan attached to, only after the fallback pass has run;
\* and a scan that reaches its detach without having printed a key ran the
\* primary pass and then the fallback pass.
FallbackBeforeNoKeys ==
    /\ Contains(stdout, NO_KEYS_FOUND) => "fallback" \in SeqToSet(passes)
    /\ (advice /\ "attach" \in SeqToSet(passes)) => "fallback" \in SeqToSet(passes)
    /\ (pc \in {"detach", "child_done", "main_keys"} /\ "attach" \in SeqToSet(passes)
        /\ ~Contains(stdout, KEY_FOUND)) =>
            SubSeq(passes, 1, 3) = <<"attach", "primary", "fallback">>

\* a scan that found nothing in either pass, and main()'s message after it
NoKeysWitness ==
    /\ pc = "exited"
    /\ advice
    /\ Contains(stdout, NO_KEYS_FOUND)
    /\ passes = <<"attach", "primary", "fallback", "detach">>
    /\ memory # <<>>

\* C9: when the child has finished a scan that attached, the target is
\* running, not attached and not killed, and the detach was the last step
\* of the scan.
DetachedOnReturn ==
    (/\ "attach" \in SeqToSet(passes)
     /\ \/ pc \in {"child_done", "main_keys"}
        \/ pc = "exited" /\ history[run].returned) =>
        /\ target = "running"
        /\ passes[Len(passes)] = "detach"

\* a scan whose fallback pass found keys, returned
DetachWitness ==
    /\ pc = "exited"
    /\ passes = <<"attach", "primary", "fallback", "detach">>
    /\ keys # <<>>
    /\ target = "running"

ReadOk(mem) == {i \in 1..Len(mem) : mem[i].read = "ok"}

\* the regions the primary pass reads: readable, of 64 bytes to 100 MiB
PrimaryReads(mem) ==
    {i \in ReadOk(mem) : /\ mem[i].readable
                         /\ RegionSize(mem[i]) >= 64
                         /\ RegionSize(mem[i]) <= 100 * 1024 * 1024}

\* C10: a region whose read fails is skipped and nothing else: after the
\* primary pass found_keys holds exactly the quoted keys in the first 10 MiB
\* of the regions that were read, wherever the failing regions stand among
\* them, and after the fallback pass exactly the candidates of the regions
\* that were read, each printed.
FailedRegionsOnlySkipped ==
    /\ pc = "report" =>
          found_keys = UNION {CapturesWithin(memory[i].content, 10 * 1024 * 1024) :
                                i \in PrimaryReads(memory)}
    /\ (pc = "detach" /\ "fallback" \in SeqToSet(passes)) =>
          /\ found_keys = UNION {SeqToSet(FallbackRegion(memory[i])) : i \in ReadOk(memory)}
          /\ \A c \in found_keys : Contains(stdout, KEY_CANDIDATE \o <<" ">> \o c \o NL)

\* a key found after a region that could not be read
SkippedWitness ==
    /\ pc = "report"
    /\ Len(memory) >= 2
    /\ memory[1].read # "ok"
    /\ memory[2].read = "ok"
    /\ found_keys # {}

====
